---- MODULE Spec2Model ----
(***************************************************************************)
(* slurm_longrun: the sbatch_longrun supervisor (main.py, utils.py,        *)
(* common.py) as a state machine.                                          *)
(*                                                                         *)
(* Text is a sequence of atoms: an atom is a maximal run of characters     *)
(* without a separator, and each separator (" ", "-", ":", ".", "=") is an *)
(* atom of its own, so that str.split, the "in" test and int() are         *)
(* computed as the code computes them.  A Python value is None or a str.   *)
(* A call that may raise returns [exc |-> <exception name or "none">,      *)
(* val |-> <value>].                                                       *)
(***************************************************************************)
EXTENDS Integers, Sequences, FiniteSets, TLC

(* ------------------------------ bounds --------------------------------- *)

\* largest --max-restarts value explored (0 .. MaxBudget)
MaxBudget == 3

\* largest number of _fetch_info calls explored in one run of run_until
MaxPolls == 3

(* --------------------------- Python values ----------------------------- *)

PyNone == [tag |-> "None"]

PyStr(t) == [tag |-> "str", s |-> t]

\* truth value of an Optional[str]: None and "" are falsy
Truthy(v) == v.tag = "str" /\ v.s # << >>

Ok(v) == [exc |-> "none", val |-> v]

Raise(e) == [exc |-> e, val |-> PyNone]

\* dict.get(key) on a dict of str: None when the key is absent
DictGet(d, k) == IF k \in DOMAIN d THEN PyStr(d[k]) ELSE PyNone

\* dict.get(key, default)
DictGetDefault(d, k, default) == IF k \in DOMAIN d THEN d[k] ELSE default

\* {**b, **a}: the keys of both, a's value where both have the key
DictMerge_AccountingWins(a, b) ==
  [k \in (DOMAIN a) \cup (DOMAIN b) |-> IF k \in DOMAIN a THEN a[k] ELSE b[k]]

\* {**a, **b}: the keys of both, b's value where both have the key
DictMerge(a, b) ==
  [k \in (DOMAIN a) \cup (DOMAIN b) |-> IF k \in DOMAIN b THEN b[k] ELSE a[k]]

EmptyDict == [k \in {} |-> << >>]

(* ------------------------------- text ---------------------------------- *)

WS == " "

\* the k-th smallest element of a set of integers
Nth(S, k) == CHOOSE i \in S : Cardinality({j \in S : j < i}) = k - 1

\* str.split() with no separator: the whitespace-free tokens, in order; a token
\* starts at a non-blank atom that is first or follows a blank, and runs up to
\* the last atom before the next blank
SplitWs(t) ==
  LET starts   == {i \in 1..Len(t) : t[i] # WS /\ (i = 1 \/ t[i - 1] = WS)}
      EndOf(i) == CHOOSE j \in i..Len(t) :
                    /\ \A k \in i..j : t[k] # WS
                    /\ (j = Len(t) \/ t[j + 1] = WS)
  IN  [k \in 1..Cardinality(starts) |->
         SubSeq(t, Nth(starts, k), EndOf(Nth(starts, k)))]

\* index of the first atom equal to sep, 0 when there is none
IndexOf(t, sep) ==
  IF \E i \in 1..Len(t) : t[i] = sep
  THEN CHOOSE i \in 1..Len(t) : t[i] = sep /\ \A j \in 1..(i - 1) : t[j] # sep
  ELSE 0

\* str.split(sep): the pieces between the separators (empty pieces kept)
SplitOn(t, sep) ==
  LET seps     == {i \in 1..Len(t) : t[i] = sep}
      n        == Cardinality(seps)
      Bound(k) == IF k = 0 THEN 0
                  ELSE IF k = n + 1 THEN Len(t) + 1 ELSE Nth(seps, k)
  IN  [k \in 1..(n + 1) |-> SubSeq(t, Bound(k - 1) + 1, Bound(k) - 1)]

(* ------------------------ common.py: JobStatus ------------------------- *)

NonTerminalValues ==
  {"PENDING", "RUNNING", "SUSPENDED", "COMPLETING", "CONFIGURING", "RESIZING",
   "REQUEUED"}

\* TERMINAL_STATES without JobStatus.UNKNOWN
TERMINAL_STATES_NoUnknown ==
  {"COMPLETED", "FAILED", "TIMEOUT", "PREEMPTED", "STOPPED", "CANCELLED",
   "BOOT_FAIL", "NODE_FAIL", "DEADLINE", "OUT_OF_MEMORY", "SPECIAL_EXIT",
   "REVOKED"}

TERMINAL_STATES ==
  {"COMPLETED", "FAILED", "TIMEOUT", "PREEMPTED", "STOPPED", "CANCELLED",
   "BOOT_FAIL", "NODE_FAIL", "DEADLINE", "OUT_OF_MEMORY", "SPECIAL_EXIT",
   "REVOKED", "UNKNOWN"}

SUCCESS_STATES == {"COMPLETED", "TIMEOUT"}

\* the values of the JobStatus enum members
JobStatusValues ==
  NonTerminalValues \cup
  {"COMPLETED", "FAILED", "TIMEOUT", "PREEMPTED", "STOPPED", "CANCELLED",
   "BOOT_FAIL", "NODE_FAIL", "DEADLINE", "OUT_OF_MEMORY", "SPECIAL_EXIT",
   "REVOKED", "UNKNOWN"}

\* JobStatus(value): the member whose value is the str, ValueError otherwise
JobStatus(v) ==
  IF v.tag = "str" /\ Len(v.s) = 1 /\ v.s[1] \in JobStatusValues
  THEN Ok(v.s[1])
  ELSE Raise("ValueError")

\* JobStatus.is_final(status)
is_final(status) ==
  LET st == JobStatus(status)
  IN  IF st.exc # "none" THEN st ELSE Ok(st.val \in TERMINAL_STATES)

\* JobStatus.is_success(status)
is_success(status) ==
  LET st == JobStatus(status)
  IN  IF st.exc # "none" THEN st ELSE Ok(st.val \in SUCCESS_STATES)

(* --------------------- main.py: extract_job_status --------------------- *)

\* raw = info.get("JobState") or info.get("State", "").split(maxsplit=1)[0]
\* IndexError when State has no token; raw is then never bound
RawStatus(info) ==
  LET js   == DictGet(info, "JobState")
      toks == SplitWs(DictGetDefault(info, "State", << >>))
  IN  IF Truthy(js) THEN Ok(js)
      ELSE IF toks = << >> THEN Raise("IndexError")
      ELSE Ok(PyStr(toks[1]))

\* the value extract_job_status returns (a JobStatus value, as str); the except
\* clause formats raw, which is unbound when the first line raised IndexError
extract_job_status(info) ==
  LET raw == RawStatus(info)
  IN  IF raw.exc = "IndexError" THEN Raise("UnboundLocalError")
      ELSE LET status == JobStatus(raw.val)
           IN  IF status.exc = "ValueError" THEN Ok(PyStr(<<"UNKNOWN">>))
               ELSE Ok(PyStr(<<status.val>>))

(* ------------------------- utils.py: run_sbatch ------------------------ *)

\* the result of one external command: its exit code and its captured stdout
CmdResult(rc, out) == [rc |-> rc, out |-> out]

\* run_command: stdout on exit code zero, CalledProcessError otherwise
run_command(res) ==
  IF res.rc # 0 THEN Raise("CalledProcessError") ELSE Ok(res.out)

\* \d+ on one atom
IsDigits(a) == \E n \in 0..99 : a = ToString(n)

\* re.search(r"Submitted batch job (\d+)", output): the first match's group 1,
\* or None
SearchSubmitted(out) ==
  LET hits == {i \in 1..(Len(out) - 6) :
                 /\ SubSeq(out, i, i + 5) =
                      <<"Submitted", WS, "batch", WS, "job", WS>>
                 /\ IsDigits(out[i + 6])}
  IN  IF hits = {} THEN PyNone
      ELSE LET first == CHOOSE i \in hits : \A j \in hits : i <= j
           IN  PyStr(<<out[first + 6]>>)

\* run_sbatch(args) on the submit command's result: the job id, None when the
\* confirmation is not found, CalledProcessError on a nonzero exit
run_sbatch(res) ==
  LET output == run_command(res)
  IN  IF output.exc # "none" THEN output ELSE Ok(SearchSubmitted(output.val))

(* ----------------------- utils.py: status queries ---------------------- *)

\* get_scontrol_show_job_details: the stdout is split on whitespace and every
\* token containing "=" gives one key (the text before the first "=", one atom
\* in every output considered here) and value; a later duplicate overwrites
ParseTokens(toks) ==
  LET keyed    == {i \in 1..Len(toks) : IndexOf(toks[i], "=") # 0}
      KeyOf(i) == IF IndexOf(toks[i], "=") = 2 THEN toks[i][1] ELSE ""
      LastOf(k) == CHOOSE i \in keyed :
                     KeyOf(i) = k /\ \A j \in keyed : KeyOf(j) = k => j <= i
  IN  [k \in {KeyOf(i) : i \in keyed} |->
         SubSeq(toks[LastOf(k)], IndexOf(toks[LastOf(k)], "=") + 1,
                Len(toks[LastOf(k)]))]

\* a failed command gives the empty dict
get_scontrol_show_job_details(res) ==
  LET out == run_command(res)
  IN  IF out.exc # "none" THEN EmptyDict ELSE ParseTokens(SplitWs(out.val))

headers ==
  <<"JobID", "JobName", "State", "ExitCode", "Reason", "Comment", "Elapsed">>

\* parts = (parts + [""]*len(headers))[:len(headers)]; dict(zip(headers, parts))
RowDict(parts) ==
  LET padded == SubSeq(parts \o [i \in 1..Len(headers) |-> << >>],
                       1, Len(headers))
  IN  [h \in {headers[i] : i \in 1..Len(headers)} |->
         padded[CHOOSE i \in 1..Len(headers) : headers[i] = h]]

\* get_sacct_job_details: subprocess.run(check=True) is not guarded, so a
\* nonzero exit raises; res.out is the stripped stdout as a sequence of lines,
\* each line the sequence of its "|"-separated fields
get_sacct_job_details(res) ==
  IF res.rc # 0 THEN Raise("CalledProcessError")
  ELSE IF res.out = << >> THEN Ok(<< >>)
  ELSE Ok([i \in 1..Len(res.out) |-> RowDict(res.out[i])])

\* next((x for x in rows if x["JobID"] == job_id), {})
FirstRowOf(rows, job_id) ==
  LET hits == {i \in 1..Len(rows) : PyStr(rows[i]["JobID"]) = job_id}
  IN  IF hits = {} THEN EmptyDict
      ELSE rows[CHOOSE i \in hits : \A j \in hits : i <= j]

\* _fetch_info(job_id) on what get_sacct_job_details(job_id) did (rows, or the
\* exception it raised) and on what get_scontrol_show_job_details(job_id)
\* returned (live)
fetch_info(job_id, rows, live) ==
  IF rows.exc # "none" THEN rows
  ELSE Ok(DictMerge(FirstRowOf(rows.val, job_id), live))

(* ----------------------- utils.py: time_to_seconds --------------------- *)

\* the decimal numerals int() is given here: 0..99, also with a leading zero
Decimals == {ToString(n) : n \in 0..99} \cup {"0" \o ToString(n) : n \in 0..99}

\* the number a decimal numeral denotes
DecimalValue ==
  [a \in Decimals |->
     CHOOSE n \in 0..99 : a = ToString(n) \/ a = "0" \o ToString(n)]

\* int(text): a run of decimal digits, with an optional sign
IntOf(t) ==
  LET dec(a) == IF a \in Decimals THEN Ok(DecimalValue[a])
                ELSE Raise("ValueError")
  IN  IF Len(t) = 1 THEN dec(t[1])
      ELSE IF Len(t) = 2 /\ t[1] = "-" /\ dec(t[2]).exc = "none"
           THEN Ok(0 - dec(t[2]).val)
      ELSE Raise("ValueError")

\* time_to_seconds(timestr): "D-HH:MM:SS" or "HH:MM:SS" to seconds; ValueError
\* from int() or from unpacking other than three fields (days and parts are
\* the values of the local variables, each computed once)
time_to_seconds(timestr) ==
  LET i     == IndexOf(timestr, "-")
      rest  == IF i # 0 THEN SubSeq(timestr, i + 1, Len(timestr)) ELSE timestr
      Seconds(days, parts) ==
        IF days.exc # "none" THEN Raise("ValueError")
        ELSE IF \E k \in 1..Len(parts) : IntOf(parts[k]).exc # "none"
             THEN Raise("ValueError")
        ELSE IF Len(parts) # 3 THEN Raise("ValueError")
        ELSE Ok(days.val * 86400 + IntOf(parts[1]).val * 3600
                + IntOf(parts[2]).val * 60 + IntOf(parts[3]).val)
  IN  CHOOSE v \in
        { Seconds(days, parts) :
            days \in {IF i # 0 THEN IntOf(SubSeq(timestr, 1, i - 1)) ELSE Ok(0)},
            parts \in {SplitOn(rest, ":")} } : TRUE

Max(a, b) == IF a >= b THEN a ELSE b

Min(a, b) == IF a <= b THEN a ELSE b

\* the default of info.get("TimeLimit", ...) and info.get("RunTime", ...)
ZeroTime == <<"00", ":", "00", ":", "00">>

\* sleep_secs without the floor: min(rem, 5 * 60)
SleepSecs_NoFloor(info) ==
  LET tl == time_to_seconds(DictGetDefault(info, "TimeLimit", ZeroTime))
      rt == time_to_seconds(DictGetDefault(info, "RunTime", ZeroTime))
  IN  IF tl.exc # "none" THEN tl
      ELSE IF rt.exc # "none" THEN rt
      ELSE Ok(Min(tl.val - rt.val, 5 * 60))

\* sleep_secs = max(5, min(rem, 5 * 60)) with rem = TimeLimit - RunTime
SleepSecs(info) ==
  LET tl == time_to_seconds(DictGetDefault(info, "TimeLimit", ZeroTime))
      rt == time_to_seconds(DictGetDefault(info, "RunTime", ZeroTime))
  IN  IF tl.exc # "none" THEN tl
      ELSE IF rt.exc # "none" THEN rt
      ELSE Ok(Max(5, Min(tl.val - rt.val, 5 * 60)))

(* ------------------- the commands' possible results -------------------- *)

\* the identifier the scheduler gives the k-th accepted submission
JobIdText(k) == <<ToString(41 + k)>>

\* sbatch: rejected (nonzero exit); accepted and confirmed; exit zero with
\* output that holds no "Submitted batch job <id>"
SbatchResults(k) ==
  { CmdResult(1, << >>),
    CmdResult(0, <<"Submitted", WS, "batch", WS, "job", WS>> \o JobIdText(k)),
    CmdResult(0, << >>),
    CmdResult(0, <<"submitted", WS, "batch", WS, "job", WS>> \o JobIdText(k)) }

HMS(h, m, s) == <<h, ":", m, ":", s>>

\* one sacct line: JobID|JobName|State|ExitCode|Reason|Comment|Elapsed
SacctRow(id, state) ==
  <<id, <<"train">>, state, <<"0", ":", "0">>, <<"None">>, << >>,
    HMS("00", "10", "00")>>

\* sacct -j <id>: failure, no line, the job's line in some state (alone or with
\* a step's line), a step's line only, a line cut short after the JobID
SacctResults(id) ==
  { CmdResult(1, << >>), CmdResult(0, << >>) }
  \cup { CmdResult(0, << SacctRow(id, st) >>) :
           st \in { <<"RUNNING">>, <<"TIMEOUT">>, <<"COMPLETED">>,
                    <<"CANCELLED", WS, "by", WS, "1000">> } }
  \cup { CmdResult(0, << SacctRow(id \o <<".", "batch">>, <<"CANCELLED">>),
                         SacctRow(id, <<"TIMEOUT">>) >>),
         CmdResult(0, << SacctRow(id \o <<".", "batch">>, <<"COMPLETED">>) >>),
         CmdResult(0, << <<id>> >>) }

\* scontrol show job <id>: failure, or key=value tokens
ScontrolResults(id) ==
  { CmdResult(1, << >>) }
  \cup { CmdResult(0, <<"JobId", "=">> \o id \o <<WS, "JobState", "=", js, WS,
                        "RunTime", "=">> \o rt \o <<WS, "TimeLimit", "=">> \o tl) :
           <<js, rt, tl>> \in
             { <<"RUNNING", HMS("00", "01", "00"),
                 <<"1", "-">> \o HMS("00", "00", "00")>>,
               <<"RUNNING", HMS("00", "08", "00"), HMS("00", "10", "00")>>,
               <<"COMPLETING", HMS("00", "10", "12"), HMS("00", "10", "00")>>,
               <<"PENDING", HMS("00", "00", "00"), <<"UNLIMITED">> >>,
               <<"TIMEOUT", HMS("00", "10", "12"), HMS("00", "10", "00")>>,
               <<"COMPLETED", HMS("00", "03", "00"), HMS("00", "10", "00")>>,
               <<"SIGNALING", HMS("00", "02", "00"), HMS("00", "10", "00")>> } }
  \cup { CmdResult(0, <<"State", "=", "RUNNING">>) }

\* the identifiers a chain can get
JobIds == {JobIdText(k) : k \in 1..(MaxBudget + 1)}

\* what get_sacct_job_details(id) can do: for every identifier and every result
\* of the sacct command, the rows it returns or the exception it raises
SacctOutcomes ==
  UNION { { <<id, res, get_sacct_job_details(res)>> : res \in SacctResults(id) } :
          id \in JobIds }

\* what get_scontrol_show_job_details(id) can return: for every identifier, the
\* record made from every result of the scontrol command
ScontrolOutcomes ==
  UNION { { <<id, get_scontrol_show_job_details(res)>> :
            res \in ScontrolResults(id) } : id \in JobIds }

(* ------------------------------- state --------------------------------- *)

VARIABLES
  sbatch_args,   \* cli: the passed-through submit arguments
  use_detached,  \* cli: --use-detached/--no-detached
  max_restarts,  \* cli: --max-restarts
  callerPc,      \* the invoking process, in cli
  cliExc,        \* the exception cli ended with, "none" otherwise
  workerPc,      \* the multiprocessing.Process running _wrapper
  grandPc,       \* the process forked by _wrapper
  pid_queue,     \* multiprocessing.Queue(1), the values in it
  child_pid,     \* what _run_detached returned to cli, 0 before
  putBy,         \* the processes that called pid_queue.put, in order
  nGet,          \* pid_queue.get calls that returned
  queueClosed,   \* whether pid_queue.close() was called
  entered,       \* the processes in which _wrapper called func
  grandSid,      \* the forked child's session: "none", "inherited", "own"
  runner,        \* the process that called run_until
  pc,            \* run_until's position
  exc,           \* the exception run_until ended with, "none" otherwise
  sbatch_list,   \* run_until: the argument list given to run_sbatch
  job_id,        \* run_until: the current submission's identifier
  attempt,       \* run_until: the for loop's variable, 0 before the loop
  info,          \* run_until: the last merged record
  sacct,         \* _fetch_info: the accounting row it last selected
  sctrl,         \* _fetch_info: the live-query record it last got
  environ,       \* os.environ["SLURM_LONGRUN_INITIAL_JOB_ID"]
  stdio,         \* where the runner's stdin/stdout/stderr point
  firstSubmitStdio, \* where they pointed when the first sbatch ran, "none" before
  exitCode,      \* the exit status of the runner's process, -1 while it runs
  submitLog,     \* the argument lists of the sbatch invocations, in order
  nSubmitted,    \* sbatch invocations that returned a job id
  nFetch,        \* _fetch_info calls
  nSleep,        \* time.sleep calls of the polling loop
  lastSleep,     \* the last sleep_secs, 0 before
  finalState,    \* the state logged as "entered final state", None before
  observedFinal, \* the job id whose record last ended the polling loop
  report         \* the closing log message of run_until, "none" before

vars ==
  << sbatch_args, use_detached, max_restarts, callerPc, cliExc, workerPc,
     grandPc, pid_queue, child_pid, runner, pc, exc, sbatch_list, job_id,
     attempt, info, sacct, sctrl, environ, stdio, firstSubmitStdio, exitCode,
     submitLog, nSubmitted, nFetch, nSleep, lastSleep, finalState, report,
     putBy, nGet, queueClosed, entered, grandSid, observedFinal >>

cliVars == << sbatch_args, use_detached, max_restarts >>

detachVars == << callerPc, cliExc, workerPc, grandPc, pid_queue, child_pid >>

handoffVars == << putBy, nGet, queueClosed, entered, grandSid >>

runVars ==
  << runner, pc, exc, sbatch_list, job_id, attempt, info, sacct, sctrl,
     environ, stdio, firstSubmitStdio, exitCode, submitLog, nSubmitted, nFetch,
     nSleep, lastSleep, finalState, report, observedFinal >>

Init ==
  /\ sbatch_args \in { <<"job.sbatch">>, <<"--time=00:10:00", "job.sbatch">> }
  /\ use_detached \in BOOLEAN
  /\ max_restarts \in 0..MaxBudget
  /\ callerPc = "cli"
  /\ cliExc = "none"
  /\ workerPc = "none"
  /\ grandPc = "none"
  /\ pid_queue = << >>
  /\ child_pid = 0
  /\ putBy = << >>
  /\ nGet = 0
  /\ queueClosed = FALSE
  /\ entered = {}
  /\ grandSid = "none"
  /\ runner = "none"
  /\ pc = "idle"
  /\ exc = "none"
  /\ sbatch_list = << >>
  /\ job_id = PyNone
  /\ attempt = 0
  /\ info = EmptyDict
  /\ sacct = EmptyDict
  /\ sctrl = EmptyDict
  /\ environ = PyNone
  /\ stdio = "terminal"
  /\ firstSubmitStdio = "none"
  /\ exitCode = -1
  /\ submitLog = << >>
  /\ nSubmitted = 0
  /\ nFetch = 0
  /\ nSleep = 0
  /\ lastSleep = 0
  /\ finalState = PyNone
  /\ observedFinal = PyNone
  /\ report = "none"

(* --------------------------- main.py: cli ------------------------------ *)

\* cli: in detached mode _run_detached creates the queue, starts the worker
\* process and blocks in pid_queue.get(); otherwise run_until is called with
\* four positional arguments (sbatch_args, use_verbosity, use_detached,
\* max_restarts) although it takes three, which raises TypeError before
\* run_until's first statement
Cli ==
  /\ callerPc = "cli"
  /\ IF use_detached
     THEN /\ callerPc' = "wait_pid"
          /\ workerPc' = "fork"
          /\ UNCHANGED cliExc
     ELSE /\ callerPc' = "raised"
          /\ cliExc' = "TypeError"
          /\ UNCHANGED workerPc
  /\ UNCHANGED << grandPc, pid_queue, child_pid >>
  /\ UNCHANGED handoffVars
  /\ UNCHANGED cliVars
  /\ UNCHANGED runVars

(* ----------------------- utils.py: _run_detached ----------------------- *)

\* os.getpid() in the process that invoked cli
CallerPid == 100

\* os.getpid() in the multiprocessing.Process that runs _wrapper
WorkerPid == 101

\* what os.fork() returns to the worker: the pid of the forked child
GrandchildPid == 102

\* _wrapper in the worker process, os.fork() succeeding: from here on the
\* worker and the forked child run concurrently, the worker towards
\* pid_queue.put(pid) and the child towards os.setsid()
WrapperFork ==
  /\ workerPc = "fork"
  /\ workerPc' = "put"
  /\ grandPc' = "setsid"
  /\ grandSid' = "inherited"
  /\ UNCHANGED << callerPc, cliExc, pid_queue, child_pid >>
  /\ UNCHANGED << putBy, nGet, queueClosed, entered >>
  /\ UNCHANGED cliVars
  /\ UNCHANGED runVars

\* the worker after the fork without the return of line 131: after the put it
\* falls through to func(*args, **kwargs) as the forked child does
WrapperPut_RunsFunc ==
  /\ workerPc = "put"
  /\ pid_queue' = Append(pid_queue, GrandchildPid)
  /\ putBy' = Append(putBy, "worker")
  /\ entered' = entered \cup {"worker"}
  /\ workerPc' = "exited"
  /\ UNCHANGED << callerPc, cliExc, grandPc, child_pid >>
  /\ UNCHANGED << nGet, queueClosed, grandSid >>
  /\ UNCHANGED cliVars
  /\ UNCHANGED runVars

\* the worker after the fork: pid_queue.put(pid); return, which ends the
\* worker process
WrapperPut ==
  /\ workerPc = "put"
  /\ pid_queue' = Append(pid_queue, GrandchildPid)
  /\ putBy' = Append(putBy, "worker")
  /\ workerPc' = "exited"
  /\ UNCHANGED << callerPc, cliExc, grandPc, child_pid >>
  /\ UNCHANGED << nGet, queueClosed, entered, grandSid >>
  /\ UNCHANGED cliVars
  /\ UNCHANGED runVars

\* _wrapper in the worker process, os.fork() raising OSError: the worker puts
\* its own pid on the queue and calls func itself
WrapperForkFails ==
  /\ workerPc = "fork"
  /\ pid_queue' = Append(pid_queue, WorkerPid)
  /\ putBy' = Append(putBy, "worker")
  /\ entered' = entered \cup {"worker"}
  /\ UNCHANGED << nGet, queueClosed, grandSid >>
  /\ workerPc' = "supervising"
  /\ runner' = "worker"
  /\ pc' = "submit"
  /\ sbatch_list' = sbatch_args
  /\ UNCHANGED << callerPc, cliExc, grandPc, child_pid >>
  /\ UNCHANGED cliVars
  /\ UNCHANGED << exc, job_id, attempt, info, sacct, sctrl, environ, stdio,
                  firstSubmitStdio, exitCode, submitLog, nSubmitted, nFetch,
                  nSleep, lastSleep, finalState, report, observedFinal >>

\* the forked child reporting its own pid as well: pid_queue.put(os.getpid())
\* before os.setsid() and func
GrandchildStart_Puts ==
  /\ grandPc = "setsid"
  /\ grandPc' = "supervising"
  /\ pid_queue' = Append(pid_queue, GrandchildPid)
  /\ putBy' = Append(putBy, "grandchild")
  /\ grandSid' = "own"
  /\ entered' = entered \cup {"grandchild"}
  /\ runner' = "grandchild"
  /\ pc' = "submit"
  /\ sbatch_list' = sbatch_args
  /\ UNCHANGED << nGet, queueClosed >>
  /\ UNCHANGED << callerPc, cliExc, workerPc, child_pid >>
  /\ UNCHANGED cliVars
  /\ UNCHANGED << exc, job_id, attempt, info, sacct, sctrl, environ, stdio,
                  firstSubmitStdio, exitCode, submitLog, nSubmitted, nFetch,
                  nSleep, lastSleep, finalState, report, observedFinal >>

\* the forked child: os.setsid(), then func(*args) = run_until(sbatch_args,
\* use_detached, max_restarts), whose first statements copy the arguments
GrandchildStart ==
  /\ grandPc = "setsid"
  /\ grandPc' = "supervising"
  /\ grandSid' = "own"
  /\ entered' = entered \cup {"grandchild"}
  /\ UNCHANGED << putBy, nGet, queueClosed >>
  /\ runner' = "grandchild"
  /\ pc' = "submit"
  /\ sbatch_list' = sbatch_args
  /\ UNCHANGED << callerPc, cliExc, workerPc, pid_queue, child_pid >>
  /\ UNCHANGED cliVars
  /\ UNCHANGED << exc, job_id, attempt, info, sacct, sctrl, environ, stdio,
                  firstSubmitStdio, exitCode, submitLog, nSubmitted, nFetch,
                  nSleep, lastSleep, finalState, report, observedFinal >>

\* the caller held in pid_queue.get() until the process that runs run_until
\* has ended
CallerGetsPid_Joins ==
  /\ callerPc = "wait_pid"
  /\ pid_queue # << >>
  /\ pc \in {"returned", "raised"}
  /\ child_pid' = Head(pid_queue)
  /\ pid_queue' = Tail(pid_queue)
  /\ nGet' = nGet + 1
  /\ queueClosed' = TRUE
  /\ callerPc' = "returned"
  /\ UNCHANGED << cliExc, workerPc, grandPc >>
  /\ UNCHANGED << putBy, entered, grandSid >>
  /\ UNCHANGED cliVars
  /\ UNCHANGED runVars

\* the caller: child_pid = pid_queue.get(); pid_queue.close(); return; then
\* cli logs the pid, sleeps two seconds and returns
CallerGetsPid ==
  /\ callerPc = "wait_pid"
  /\ pid_queue # << >>
  /\ child_pid' = Head(pid_queue)
  /\ pid_queue' = Tail(pid_queue)
  /\ nGet' = nGet + 1
  /\ queueClosed' = TRUE
  /\ callerPc' = "returned"
  /\ UNCHANGED << cliExc, workerPc, grandPc >>
  /\ UNCHANGED << putBy, entered, grandSid >>
  /\ UNCHANGED cliVars
  /\ UNCHANGED runVars

\* whether the worker process has ended: _wrapper returned after the put, or
\* the run_until it called itself (fork failure) returned or raised
WorkerEnded ==
  \/ workerPc = "exited"
  \/ runner = "worker" /\ pc \in {"returned", "raised"}

\* the caller's process ends after cli returned: worker.daemon = False, and
\* multiprocessing joins its non-daemonic children when the interpreter exits
CallerExit ==
  /\ callerPc = "returned"
  /\ WorkerEnded
  /\ callerPc' = "exited"
  /\ UNCHANGED << cliExc, workerPc, grandPc, pid_queue, child_pid >>
  /\ UNCHANGED handoffVars
  /\ UNCHANGED cliVars
  /\ UNCHANGED runVars

(* ------------------------- main.py: run_until -------------------------- *)

\* the exit status of the process that runs run_until, given run_until's
\* position: os._exit(0) after func returned (the worker leaves _wrapper with
\* the same status), 1 from multiprocessing's bootstrap when func raised, -1
\* while run_until has not ended
ExitStatus(p) == IF p = "returned" THEN 0 ELSE IF p = "raised" THEN 1 ELSE -1

\* line 81 with the environment before it: os.environ[...] left as it was
ExportInitialJobId_Keep(env, id) == env

\* line 81: os.environ["SLURM_LONGRUN_INITIAL_JOB_ID"] = job_id
ExportInitialJobId(env, id) == id

\* line 82 with append in place of insert(0, ...)
InsertOpenMode_AtEnd(list) == list \o <<"--open-mode=append">>

\* line 82: sbatch_list.insert(0, "--open-mode=append")
InsertOpenMode(list) == <<"--open-mode=append">> \o list

\* for attempt in range(1, max_restarts + 1): whether the loop has an iteration
\* after the one numbered att (att = 0 before the first)
LoopContinues(att, budget) == att + 1 <= budget

\* detach_terminal() when use_detached
AfterDetach == IF use_detached THEN "devnull" ELSE stdio

\* lines 72-85: the initial run_sbatch, the export of the chain identity, the
\* insertion of --open-mode=append and the entry of the for loop
InitialSubmit ==
  /\ pc = "submit"
  /\ \E res \in SbatchResults(nSubmitted + 1) :
       LET r == run_sbatch(res)
       IN  /\ submitLog' = Append(submitLog, sbatch_list)
           /\ IF r.exc # "none"
              THEN /\ pc' = "raised"
                   /\ exc' = r.exc
                   /\ UNCHANGED << job_id, stdio, report, environ, sbatch_list,
                                   nSubmitted, attempt >>
              ELSE /\ job_id' = r.val
                   /\ stdio' = AfterDetach
                   /\ UNCHANGED exc
                   /\ IF ~Truthy(r.val)
                      THEN /\ report' = "Initial sbatch submission failed."
                           /\ pc' = "returned"
                           /\ UNCHANGED << environ, sbatch_list, nSubmitted,
                                           attempt >>
                      ELSE /\ environ' = ExportInitialJobId(environ, r.val)
                           /\ sbatch_list' = InsertOpenMode(sbatch_list)
                           /\ nSubmitted' = nSubmitted + 1
                           /\ UNCHANGED report
                           /\ IF LoopContinues(0, max_restarts)
                              THEN attempt' = 1 /\ pc' = "fetch"
                              ELSE pc' = "returned" /\ UNCHANGED attempt
  /\ firstSubmitStdio' = stdio
  /\ exitCode' = ExitStatus(pc')
  /\ UNCHANGED observedFinal
  /\ UNCHANGED << runner, info, sacct, sctrl, nFetch, nSleep, lastSleep,
                  finalState >>
  /\ UNCHANGED cliVars
  /\ UNCHANGED detachVars
  /\ UNCHANGED handoffVars

\* lines 86 and 96, with the test of the while loop at line 89: _fetch_info,
\* then JobStatus.is_final(extract_job_status(info))
FetchInfo ==
  /\ pc = "fetch"
  /\ nFetch < MaxPolls
  /\ nFetch' = nFetch + 1
  /\ \E sa \in {o \in SacctOutcomes : o[1] = job_id.s},
        so \in {o \in ScontrolOutcomes : o[1] = job_id.s} :
       LET rows == sa[3]
           live == so[2]
           r    == fetch_info(job_id, rows, live)
       IN  IF r.exc # "none"
           THEN /\ pc' = "raised" /\ exc' = r.exc
                /\ UNCHANGED << info, sacct, sctrl >>
           ELSE /\ info' = r.val
                /\ sacct' = FirstRowOf(rows.val, job_id)
                /\ sctrl' = live
                /\ LET st == extract_job_status(r.val)
                   IN  IF st.exc # "none"
                       THEN pc' = "raised" /\ exc' = st.exc
                       ELSE LET fin == is_final(st.val)
                            IN  IF fin.exc # "none"
                                THEN pc' = "raised" /\ exc' = fin.exc
                                ELSE /\ pc' = IF fin.val THEN "decide" ELSE "sleep"
                                     /\ UNCHANGED exc
  /\ exitCode' = ExitStatus(pc')
  /\ observedFinal' = IF pc' = "decide" THEN job_id ELSE observedFinal
  /\ UNCHANGED << runner, sbatch_list, job_id, attempt, environ, stdio,
                  firstSubmitStdio, submitLog, nSubmitted, nSleep, lastSleep,
                  finalState, report >>
  /\ UNCHANGED cliVars
  /\ UNCHANGED detachVars
  /\ UNCHANGED handoffVars

\* lines 90-95: the body of the polling loop up to time.sleep(sleep_secs)
PollSleep ==
  /\ pc = "sleep"
  /\ \E secs \in {SleepSecs(info)} :
         IF secs.exc # "none"
         THEN pc' = "raised" /\ exc' = secs.exc /\ UNCHANGED << nSleep, lastSleep >>
         ELSE /\ pc' = "fetch"
              /\ nSleep' = nSleep + 1
              /\ lastSleep' = secs.val
              /\ UNCHANGED exc
  /\ exitCode' = ExitStatus(pc')
  /\ UNCHANGED observedFinal
  /\ UNCHANGED << runner, sbatch_list, job_id, attempt, info, sacct, sctrl,
                  environ, stdio, firstSubmitStdio, submitLog, nSubmitted,
                  nFetch, finalState, report >>
  /\ UNCHANGED cliVars
  /\ UNCHANGED detachVars
  /\ UNCHANGED handoffVars

\* the test of line 102 with attempt <= max_restarts in place of
\* attempt < max_restarts
ShouldResubmit_OffByOne(state, att, budget) ==
  state = PyStr(<<"TIMEOUT">>) /\ att <= budget

\* line 102: state == JobStatus.TIMEOUT.value and attempt < max_restarts, with
\* state = info.get("State")
ShouldResubmit(state, att, budget) ==
  state = PyStr(<<"TIMEOUT">>) /\ att < budget

\* lines 98-107, the resubmitting branch: run_sbatch with the prefixed list,
\* then the next iteration of the for loop
Resubmit ==
  /\ pc = "decide"
  /\ ShouldResubmit(DictGet(info, "State"), attempt, max_restarts)
  /\ finalState' = DictGet(info, "State")
  /\ \E res \in SbatchResults(nSubmitted + 1) :
       LET r == run_sbatch(res)
       IN  /\ submitLog' = Append(submitLog, sbatch_list)
           /\ IF r.exc # "none"
              THEN /\ pc' = "raised"
                   /\ exc' = r.exc
                   /\ UNCHANGED << job_id, report, nSubmitted, attempt >>
              ELSE /\ job_id' = r.val
                   /\ UNCHANGED exc
                   /\ IF ~Truthy(r.val)
                      THEN /\ report' = "Resubmission failed."
                           /\ pc' = "returned"
                           /\ UNCHANGED << nSubmitted, attempt >>
                      ELSE /\ nSubmitted' = nSubmitted + 1
                           /\ UNCHANGED report
                           /\ IF LoopContinues(attempt, max_restarts)
                              THEN attempt' = attempt + 1 /\ pc' = "fetch"
                              ELSE pc' = "returned" /\ UNCHANGED attempt
  /\ exitCode' = ExitStatus(pc')
  /\ UNCHANGED observedFinal
  /\ UNCHANGED << runner, sbatch_list, info, sacct, sctrl, environ, stdio,
                  firstSubmitStdio, nFetch, nSleep, lastSleep >>
  /\ UNCHANGED cliVars
  /\ UNCHANGED detachVars
  /\ UNCHANGED handoffVars

\* lines 98-102 and 108-113, the closing branch: is_success(state), the closing
\* log message and break
Close ==
  /\ pc = "decide"
  /\ ~ShouldResubmit(DictGet(info, "State"), attempt, max_restarts)
  /\ finalState' = DictGet(info, "State")
  /\ LET ok == is_success(DictGet(info, "State"))
     IN  IF ok.exc # "none"
         THEN pc' = "raised" /\ exc' = ok.exc /\ UNCHANGED report
         ELSE /\ pc' = "returned"
              /\ report' = IF ok.val THEN "Job completed successfully."
                           ELSE "Job finished with state: {}"
              /\ UNCHANGED exc
  /\ exitCode' = ExitStatus(pc')
  /\ UNCHANGED observedFinal
  /\ UNCHANGED << runner, sbatch_list, job_id, attempt, info, sacct, sctrl,
                  environ, stdio, firstSubmitStdio, submitLog, nSubmitted,
                  nFetch, nSleep, lastSleep >>
  /\ UNCHANGED cliVars
  /\ UNCHANGED detachVars
  /\ UNCHANGED handoffVars

Next ==
  \/ Cli
  \/ WrapperFork
  \/ WrapperPut
  \/ WrapperForkFails
  \/ GrandchildStart
  \/ CallerGetsPid
  \/ CallerExit
  \/ InitialSubmit
  \/ FetchInfo
  \/ PollSleep
  \/ Resubmit
  \/ Close

Spec == Init /\ [][Next]_vars

\* the steps of the caller, of the worker and of the forked child up to the
\* call of func
DetachStep ==
  \/ Cli
  \/ WrapperFork
  \/ WrapperForkFails
  \/ WrapperPut
  \/ GrandchildStart
  \/ CallerGetsPid
  \/ CallerExit

\* the steps of run_until
RunUntilStep ==
  \/ InitialSubmit
  \/ FetchInfo
  \/ PollSleep
  \/ Resubmit
  \/ Close

\* every external command returns and every sleep ends, so a process that can
\* take its next step takes it
LiveSpec == Spec /\ WF_vars(DetachStep) /\ WF_vars(RunUntilStep)

(* ------------------------------ claims --------------------------------- *)

TIMEOUT == PyStr(<<"TIMEOUT">>)

\* the classified state of the merged record, as the polling loop computes it
Classified == extract_job_status(info).val

\* C1: whenever polling ends with the merged record classified Timeout and
\* fewer submissions made than the budget, the next step of run_until calls
\* sbatch again, and the attempt count grows by one when that call succeeds.
C1_ResubmitsOnClassifiedTimeout ==
  [][ ( /\ pc = "decide" /\ pc' # "decide"
        /\ Classified = TIMEOUT
        /\ nSubmitted < max_restarts )
      => ( /\ Len(submitLog') = Len(submitLog) + 1
           /\ (pc' = "fetch" => nSubmitted' = nSubmitted + 1) ) ]_vars

\* C2: whenever polling ends with a final classified state other than Timeout,
\* or with Timeout when the attempt count equals the budget, run_until submits
\* nothing more and closes with that classified state as outcome, not raising.
C2_ClosesWithClassifiedState ==
  [][ ( /\ pc = "decide" /\ pc' # "decide"
        /\ (Classified # TIMEOUT \/ nSubmitted = max_restarts) )
      => ( /\ submitLog' = submitLog
           /\ pc' = "returned"
           /\ exc' = "none"
           /\ finalState' = Classified ) ]_vars

\* C3 as stated: in every reachable state the number of successful submissions
\* is at most the attempt budget, for every budget, 0 included.
C3_CountWithinBudget == nSubmitted <= max_restarts

\* C3 amended: the number of successful submissions is at most the budget when
\* the budget is at least 1, and at most 1 (the unconditional initial
\* submission) when the budget is 0.
C3_CountWithinBudgetOrOne == nSubmitted <= Max(1, max_restarts)

\* C3 witness: a chain that used its whole budget of at least two submissions
\* and then closed
C3_Witness ==
  /\ pc = "returned"
  /\ max_restarts >= 2
  /\ nSubmitted = max_restarts
  /\ finalState = TIMEOUT

\* C4: when every sbatch call succeeded and every submission ended in TIMEOUT,
\* run_until stops after exactly max_restarts resubmissions.
C4_ResubmitsBudgetTimes ==
  ( /\ pc = "returned"
    /\ max_restarts >= 0
    /\ nSubmitted >= 1
    /\ Len(submitLog) = nSubmitted
    /\ (nFetch > 0 => finalState = TIMEOUT /\ Classified = TIMEOUT) )
  => nSubmitted - 1 = max_restarts

\* C5: once the first sbatch call has failed (nonzero exit, or no confirmation
\* in its output), run_until is closed with the initial-submission-failure
\* outcome, having made one submit call, no status query and no export.
C5_InitialFailureCloses ==
  (Len(submitLog) >= 1 /\ nSubmitted = 0)
  => ( /\ pc = "returned"
       /\ exc = "none"
       /\ report = "Initial sbatch submission failed."
       /\ Len(submitLog) = 1
       /\ nFetch = 0
       /\ environ = PyNone )

\* C6: once a resubmission's sbatch call has failed after a successful
\* submission, run_until is closed with the resubmission-failure outcome,
\* which differs from the initial one, and issues no further call or query.
C6_ResubmissionFailureCloses ==
  (nSubmitted >= 1 /\ Len(submitLog) > nSubmitted)
  => ( /\ pc = "returned"
       /\ exc = "none"
       /\ report = "Resubmission failed."
       /\ report # "Initial sbatch submission failed."
       /\ Len(submitLog) = nSubmitted + 1 )

\* C7: without detached mode, once cli has ended sbatch has been invoked with
\* exactly the passed-through arguments as its first call, and cli did not raise.
C7_ForegroundRunsController ==
  (~use_detached /\ callerPc # "cli")
  => ( /\ cliExc = "none"
       /\ Len(submitLog) >= 1
       /\ submitLog[1] = sbatch_args )

\* C8: after a fetch whose merged record is empty, run_until has not raised,
\* slept or resubmitted: it is deciding or closed, with outcome Unknown.
C8_EmptyRecordClosesUnknown ==
  (nFetch >= 1 /\ info = EmptyDict /\ exc # "CalledProcessError")
  => ( /\ exc = "none"
       /\ pc \in {"decide", "returned"}
       /\ Classified = PyStr(<<"UNKNOWN">>)
       /\ (pc = "returned" => report = "Job finished with state: {}") )

\* C9: extract_job_status is total: on every record a fetch produced it returns
\* one of the JobStatus values and does not raise.
C9_ClassifyTotal ==
  (nFetch >= 1 /\ exc # "CalledProcessError")
  => LET st == extract_job_status(info)
     IN  /\ st.exc = "none"
         /\ st.val.tag = "str"
         /\ Len(st.val.s) = 1
         /\ st.val.s[1] \in JobStatusValues

\* C10: no call of _fetch_info raises: every call returns a record, whatever
\* the accounting and the live query did.
C10_FetchNeverFails ==
  [][ nFetch' = nFetch + 1 => exc' # "CalledProcessError" ]_vars


\* the record the last successful fetch returned is classified non-final
NonFinalRecord ==
  /\ Classified.tag = "str"
  /\ Classified.s[1] \in NonTerminalValues

\* TimeLimit - RunTime of the last record, both parsed (absent: 00:00:00)
Remaining ==
  time_to_seconds(DictGetDefault(info, "TimeLimit", ZeroTime)).val
  - time_to_seconds(DictGetDefault(info, "RunTime", ZeroTime)).val

\* C11: the interval slept between two polls is an integer number of seconds
\* in [5, 300] and equals the remaining time (parsed time limit minus parsed
\* run time) clamped to that range, also when the remaining time is negative
\* or above 300.
C11_SleepClamped ==
  (pc = "fetch" /\ nSleep >= 1 /\ NonFinalRecord)
  => /\ lastSleep \in 5..300
     /\ lastSleep = (IF Remaining < 5 THEN 5
                     ELSE IF Remaining > 300 THEN 300 ELSE Remaining)

\* C11 witness: the run time exceeded the time limit of a job that is not yet
\* final, and the loop slept the floor
C11_Witness ==
  /\ pc = "fetch" /\ nSleep >= 1 /\ NonFinalRecord
  /\ Remaining < 0
  /\ lastSleep = 5

\* a field of the last record that is absent or is not a [D-]HH:MM:SS duration
AbsentOrUnparsable(k) ==
  \/ k \notin DOMAIN info
  \/ time_to_seconds(info[k]).exc # "none"

\* C12: when a non-final record's TimeLimit or RunTime is absent or is not a
\* duration (UNLIMITED, N/A), the polling step takes it as zero seconds and
\* goes on polling after a sleep of at least 5 seconds; it does not raise.
C12_UnparsableTreatedAsZero ==
  [][ ( /\ pc = "sleep" /\ pc' # "sleep"
        /\ (AbsentOrUnparsable("TimeLimit") \/ AbsentOrUnparsable("RunTime")) )
      => ( /\ pc' = "fetch"
           /\ exc' = "none"
           /\ nSleep' = nSleep + 1
           /\ lastSleep' >= 5 ) ]_vars

\* C13: the merged record has every key of the selected accounting row and
\* every key of the live-query record, with the live-query value for each key
\* of the live-query record and the accounting value for the other keys.
C13_LiveWinsMerge ==
  /\ DOMAIN info = (DOMAIN sacct) \cup (DOMAIN sctrl)
  /\ \A k \in DOMAIN sctrl : info[k] = sctrl[k]
  /\ \A k \in (DOMAIN sacct) \ (DOMAIN sctrl) : info[k] = sacct[k]

\* C13 witness: accounting State TIMEOUT and live State RUNNING merged to State
\* RUNNING, the other accounting fields kept
C13_Witness ==
  /\ nFetch >= 1
  /\ "State" \in DOMAIN sacct /\ sacct["State"] = <<"TIMEOUT">>
  /\ "State" \in DOMAIN sctrl /\ sctrl["State"] = <<"RUNNING">>
  /\ info["State"] = <<"RUNNING">>
  /\ info["JobID"] = job_id.s

\* the variants C14 lists as final
C14_Final ==
  {"COMPLETED", "FAILED", "TIMEOUT", "PREEMPTED", "STOPPED", "CANCELLED",
   "BOOT_FAIL", "NODE_FAIL", "DEADLINE", "OUT_OF_MEMORY", "SPECIAL_EXIT",
   "REVOKED", "UNKNOWN"}

\* the variants C14 lists as not final
C14_NonFinal ==
  {"PENDING", "RUNNING", "SUSPENDED", "COMPLETING", "CONFIGURING", "RESIZING",
   "REQUEUED"}

\* C14: there are 20 state variants; is_final is true exactly for the 13 final
\* ones and false for the 7 others, is_success is true exactly for COMPLETED
\* and TIMEOUT; the polling loop goes on exactly on the non-final ones and the
\* success message is logged only for COMPLETED and TIMEOUT.
C14_FinalAndSuccessTable ==
  /\ Cardinality(JobStatusValues) = 20
  /\ JobStatusValues = C14_Final \cup C14_NonFinal
  /\ \A v \in C14_Final : is_final(PyStr(<<v>>)) = Ok(TRUE)
  /\ \A v \in C14_NonFinal : is_final(PyStr(<<v>>)) = Ok(FALSE)
  /\ \A v \in JobStatusValues :
       is_success(PyStr(<<v>>)) = Ok(v \in {"COMPLETED", "TIMEOUT"})
  /\ pc = "sleep" => Classified \in {PyStr(<<v>>) : v \in C14_NonFinal}
  /\ pc = "decide" => Classified \in {PyStr(<<v>>) : v \in C14_Final}
  /\ report = "Job completed successfully."
       => finalState \in {PyStr(<<"COMPLETED">>), PyStr(<<"TIMEOUT">>)}

\* C14 witness: a record classified UNKNOWN ended the polling loop
C14_Witness ==
  /\ pc = "decide"
  /\ Classified = PyStr(<<"UNKNOWN">>)
  /\ nSleep >= 1

C16_RedirectedBeforeFirstSubmit ==
  /\ (runner = "grandchild" /\ pc = "submit") => stdio = "devnull"
  /\ (runner = "grandchild" /\ firstSubmitStdio # "none")
       => firstSubmitStdio = "devnull"

\* C17: the process that ran run_until ends with a nonzero status when the
\* initial submission failed (sbatch exited nonzero, or exited zero without the
\* confirmation), and with status zero when the chain closed with a success
\* state.
C17_ExitStatusReflectsOutcome ==
  /\ (exitCode # -1 /\ nSubmitted = 0) => exitCode # 0
  /\ report = "Job completed successfully." => exitCode = 0

\* C18: before the first successful submission nothing is exported; from then
\* on the exported chain identity is the first submission's identifier, through
\* every poll and resubmission, and never a resubmission's identifier.
C18_ChainIdentityFixed ==
  /\ nSubmitted = 0 => environ = PyNone
  /\ nSubmitted >= 1 => environ = PyStr(JobIdText(1))
  /\ (nSubmitted >= 2 /\ Truthy(job_id)) => environ # job_id

\* C18 witness: the second submission is being polled again after a sleep and
\* the exported identity is still the first submission's
C18_Witness ==
  /\ nSubmitted = 2
  /\ job_id = PyStr(JobIdText(2))
  /\ environ = PyStr(JobIdText(1))
  /\ pc = "fetch"
  /\ nSleep >= 1

\* C19: the first sbatch invocation gets the original argument list; every
\* later one gets --open-mode=append followed by the original argument list,
\* the flag once and the other arguments in their order.
C19_AppendFlagOnce ==
  \A i \in 1..Len(submitLog) :
    submitLog[i] = IF i = 1 THEN sbatch_args
                   ELSE <<"--open-mode=append">> \o sbatch_args

\* C19 witness: a chain of three submissions, the last two resubmissions
C19_Witness ==
  /\ Len(submitLog) = 3
  /\ nSubmitted = 3
  /\ Len(sbatch_args) = 2

\* C20: from a record classified non-final the only next step of run_until is
\* to sleep and go back to fetching the same identifier, submitting nothing and
\* closing nothing; the resubmit-or-close decision is reached only with a
\* record classified final.
C20_NonFinalOnlySleepsAndRefetches ==
  [][ /\ (pc = "sleep" /\ pc' # "sleep")
           => ( /\ pc' = "fetch"
                /\ nSleep' = nSleep + 1
                /\ job_id' = job_id
                /\ submitLog' = submitLog
                /\ report' = report
                /\ finalState' = finalState )
      /\ (pc # "decide" /\ pc' = "decide")
           => Classified' \in {PyStr(<<v>>) : v \in TERMINAL_STATES} ]_vars

\* C21: for every budget, 0 included, when run_until has returned after a
\* successful submission, the job submitted last is the one whose record it
\* last polled and saw classified final.
C21_LastJobObservedFinal ==
  (pc = "returned" /\ Truthy(job_id)) => observedFinal = job_id

\* the polling loop used all the polls of the bound on records that were not
\* final: the scheduler has not yet reported the job in a final state
PollBoundReached == pc = "fetch" /\ nFetch = MaxPolls

\* C22: when every command returns and every job is eventually reported in a
\* final classified state, run_until eventually closes (returns with its
\* closing report) having made at most max_restarts sbatch calls. Stated for
\* a budget of at least 1 from the first poll on, and leaving aside the runs in
\* which a command exits nonzero or in which no final record comes within the
\* bound on polls.
C22_EventuallyClosedWithinBudget ==
  (pc = "fetch" /\ nFetch = 0 /\ max_restarts >= 1)
    ~> ( \/ /\ pc = "returned"
            /\ report # "none"
            /\ Len(submitLog) <= max_restarts
         \/ PollBoundReached
         \/ exc = "CalledProcessError" )

\* C23: the handoff queue is written at most once, only by the worker (the
\* intermediate process), and exactly once when the worker is past its put,
\* whether the fork succeeded or failed; it never holds more than one pid; it
\* is read at most once, by the caller, and exactly once when the caller has
\* returned; it is closed only after that read.
C23_HandoffOnce ==
  /\ Len(putBy) <= 1
  /\ \A i \in 1..Len(putBy) : putBy[i] = "worker"
  /\ Len(pid_queue) <= 1
  /\ workerPc \in {"exited", "supervising"} => Len(putBy) = 1
  /\ nGet <= Len(putBy)
  /\ nGet + Len(pid_queue) = Len(putBy)
  /\ queueClosed => nGet = 1
  /\ callerPc \in {"returned", "exited"} => (nGet = 1 /\ queueClosed)
  /\ callerPc \in {"cli", "wait_pid", "raised"} => (nGet = 0 /\ ~queueClosed)

\* C23 witness: the fork failed, the worker wrote its own pid once, the caller
\* read it once and closed the queue, and the worker's run_until has ended
C23_Witness ==
  /\ callerPc = "exited"
  /\ runner = "worker"
  /\ child_pid = WorkerPid
  /\ putBy = <<"worker">>
  /\ nGet = 1
  /\ queueClosed
  /\ pid_queue = << >>

\* C24: in detached mode at most one process enters run_until, and exactly one
\* once it runs: the forked child, in its own session, when the fork succeeded
\* (the worker then never enters it), the worker when the fork failed; the
\* caller never enters it; every sbatch call is made by that one process.
C24_OneSupervisor ==
  /\ Cardinality(entered) <= 1
  /\ "caller" \notin entered
  /\ grandPc # "none" => "worker" \notin entered
  /\ "grandchild" \in entered => (grandSid = "own" /\ grandPc = "supervising")
  /\ "worker" \in entered => (workerPc = "supervising" /\ grandPc = "none")
  /\ runner # "none" => entered = {runner}
  /\ (pc # "idle" \/ Len(submitLog) >= 1) => Cardinality(entered) = 1
  /\ ~use_detached => entered = {}

\* C24 witness: the fork succeeded, the worker returned without entering
\* run_until, and the forked child, in its own session, has resubmitted
C24_Witness ==
  /\ entered = {"grandchild"}
  /\ workerPc = "exited"
  /\ grandSid = "own"
  /\ Len(submitLog) >= 2
  /\ callerPc = "exited"

====
